---- MODULE Spec2Model ----
(***************************************************************************)
(* Model of visualize_zarr.py: a CORS-enabled static file server, the      *)
(* Neuroglancer state builder, and the command-line orchestration (main).  *)
(*                                                                         *)
(* Strings are sequences of tokens, so that rstrip, abspath, basename,     *)
(* endswith and string formatting are computed, not assumed.  "/" is the   *)
(* path separator token; ".zarr", ".nii", ".gz" are suffix tokens.         *)
(***************************************************************************)
EXTENDS Integers, Sequences, FiniteSets, TLC

VARIABLES
    cwd,              \* the working directory of the invocations (os.getcwd())
    args,             \* args[p]: the parsed command line of invocation p
    pc,               \* pc[p]: position of invocation p in main
    file_paths,       \* file_paths[p]: main's file_paths (line 104)
    root_dir,         \* root_dir[p]: the temporary root: [exists, links]
    layer_names,      \* layer_names[p]: main's layer_names (line 125)
    probed,           \* probed[p]: outcome of is_port_in_use: "none" | "free" | "in_use"
    running_servers,  \* running_servers[p]: the module-level registry of process p
    httpd,            \* httpd[p]: the server object of p: [created, serving, shutdown, closed]
    listener,         \* who listens on (host, port): "none" | "other" | a process
    state,            \* state[p]: what build_state returned to main
    shown,            \* shown[p]: [printed, opened]: the URL was printed / opened
    exit,             \* exit[p]: how the process ended ("none" while it runs)
    bs_in,            \* build_state called directly: its three arguments
    bs_out,           \* build_state called directly: its outcome
    responses         \* the responses CORSRequestHandler has produced so far

mainVars == <<cwd, args, pc, file_paths, root_dir, layer_names, probed,
              running_servers, httpd, listener, state, shown, exit>>
bsVars == <<bs_in, bs_out>>
httpVars == <<responses>>
vars == <<mainVars, bsVars, httpVars>>

----------------------------------------------------------------------------
(* Bounds of the model *)

MaxPaths == 2       \* positional file_path arguments per invocation (nargs='+')
MaxNames == 2       \* values given to --name (nargs='*')
MaxLen == 3         \* length of the lists handed to build_state directly
MaxResponses == 2   \* requests served by the handler in one behaviour

----------------------------------------------------------------------------
(* Strings *)

SLASH == "/"

Min(a, b) == IF a <= b THEN a ELSE b

\* s.endswith(suf)
EndsWith(s, suf) ==
    /\ Len(s) >= Len(suf)
    /\ SubSeq(s, Len(s) - Len(suf) + 1, Len(s)) = suf

\* s.rstrip("/")
RECURSIVE Rstrip(_)
Rstrip(s) ==
    IF Len(s) > 0 /\ s[Len(s)] = SLASH THEN Rstrip(SubSeq(s, 1, Len(s) - 1)) ELSE s

\* index of the last "/" of s, 0 when there is none (str.rfind + 1)
RECURSIVE LastSlash(_, _)
LastSlash(s, i) ==
    IF i = 0 THEN 0 ELSE IF s[i] = SLASH THEN i ELSE LastSlash(s, i - 1)

\* os.path.basename(s): what follows the last separator
Basename(s) == SubSeq(s, LastSlash(s, Len(s)) + 1, Len(s))

\* runs of separators collapse to one (posixpath.normpath drops empty components)
RECURSIVE Collapse(_)
Collapse(s) ==
    IF Len(s) <= 1 THEN s
    ELSE IF s[1] = SLASH /\ s[2] = SLASH THEN Collapse(Tail(s))
    ELSE <<s[1]>> \o Collapse(Tail(s))

\* posixpath.normpath of an absolute path without "." and ".." components
Normpath(s) ==
    LET c == Collapse(s)
    IN  IF Len(c) > 1 /\ c[Len(c)] = SLASH THEN SubSeq(c, 1, Len(c) - 1) ELSE c

\* os.path.abspath(s): a relative path is joined to the working directory
Abspath(s, wd) ==
    IF Len(s) > 0 /\ s[1] = SLASH THEN Normpath(s) ELSE Normpath(wd \o <<SLASH>> \o s)

----------------------------------------------------------------------------
(* The file system the invocations see *)

ZarrSuffix == <<".zarr">>
NiiSuffix == <<".nii", ".gz">>

Dirs == { <<SLASH>>,
          <<SLASH, "w">>,
          <<SLASH, "d">>,
          <<SLASH, "e">>,
          <<SLASH, "d", SLASH, "a", ".zarr">>,
          <<SLASH, "e", SLASH, "a", ".zarr">>,
          <<SLASH, "d", SLASH, "g", ".nii", ".gz">> }

Files == { <<SLASH, "d", SLASH, "b", ".nii", ".gz">>,
           <<SLASH, "d", SLASH, "c">> }

\* os.path.isdir(fp)
IsDir(fp) == fp \in Dirs

\* the values a positional file_path argument takes
PathArgs == { <<SLASH, "d", SLASH, "a", ".zarr">>,            \* a zarr directory
              <<SLASH, "e", SLASH, "a", ".zarr", SLASH>>,     \* same name, elsewhere, trailing "/"
              <<SLASH, "d", SLASH, "b", ".nii", ".gz">>,      \* a NIfTI file
              <<SLASH, "d", SLASH, "g", ".nii", ".gz">>,      \* a directory named like a NIfTI file
              <<SLASH, "d", SLASH, "m", ".nii", ".gz">>,      \* no such file
              <<SLASH, "d", SLASH, "c">>,                     \* a file without a suffix
              <<SLASH>> }                                     \* rstrip leaves "", the working directory

Cwds == { <<SLASH>>, <<SLASH, "w">> }

----------------------------------------------------------------------------
(* build_state *)

\* a Python argument that is either a list or a single value
PyList(items) == [list |-> TRUE, items |-> items]
PyStr(item) == [list |-> FALSE, item |-> item]

\* if not isinstance(x, list): x = [x]
AsList(v) == IF v.list THEN v.items ELSE <<v.item>>

\* file_type * n
Repeat(s, n) == [i \in 1..(Len(s) * n) |-> s[((i - 1) % Len(s)) + 1]]

\* a bug: the single type is never repeated
BroadcastNoRepeat(types, n) == [ok |-> TRUE, types |-> types]

\* lines 76-80: a single type is repeated for every URL; fewer types than URLs
\* otherwise raise SystemError
Broadcast(types, n) ==
    IF Len(types) < n
    THEN IF Len(types) = 1
         THEN [ok |-> TRUE, types |-> Repeat(types, n)]
         ELSE [ok |-> FALSE, types |-> types]
    ELSE [ok |-> TRUE, types |-> types]

\* zip(urls, names, types): stops at the shortest
Zip3(urls, names, types) ==
    [i \in 1..Min(Len(urls), Min(Len(names), Len(types))) |->
        <<urls[i], names[i], types[i]>>]

\* lines 83-87: one layer
Layer(url, name, ftype) ==
    [type |-> "image", source |-> ftype \o <<"://">> \o url, name |-> name]

\* build_state(file_http_url, layer_name, file_type), lines 69-92
build_state(file_http_url, layer_name, file_type) ==
    LET urls  == AsList(file_http_url)
        names == AsList(layer_name)
        b     == Broadcast(AsList(file_type), Len(urls))
        z     == Zip3(urls, names, b.types)
    IN  IF b.ok
        THEN [raised |-> "none",
              layers |-> [i \in 1..Len(z) |-> Layer(z[i][1], z[i][2], z[i][3])]]
        ELSE [raised |-> "SystemError", layers |-> <<>>]

----------------------------------------------------------------------------
(* main: the command line *)

HOST == <<"127.0.0.1">>     \* --host default
PORT == <<"5000">>          \* --port default
ZARR == <<"zarr">>
NIIGZ == <<"nii", ".gz">>   \* 'nii.gz'
N5 == <<"n5">>              \* a tag main does not know

None == [given |-> FALSE, val |-> <<>>]
Some(v) == [given |-> TRUE, val |-> v]

\* the values of --file_type
FileTypes == { None, Some(ZARR), Some(NIIGZ), Some(N5) }

\* the k values given to --name: "n1", "n2", ...
NameTokens == <<"n1", "n2", "n3", "n4">>
NameList(k) == [i \in 1..k |-> <<NameTokens[i]>>]

\* the values of --name: absent, or a list of 0..MaxNames names
NameArgs == { None } \cup { Some(NameList(k)) : k \in 0..MaxNames }

\* the positional arguments: 1..MaxPaths paths (nargs='+')
PathLists == UNION { [1..n -> PathArgs] : n \in 1..MaxPaths }

ArgSets == [file_path : PathLists, name : NameArgs, file_type : FileTypes,
            no_open : BOOLEAN]

NoServer == [created |-> FALSE, serving |-> FALSE, shutdown |-> FALSE, closed |-> FALSE]
NoRoot == [exists |-> FALSE, links |-> <<>>]
NoState == [raised |-> "none", layers |-> <<>>]

Procs == DOMAIN pc

\* the process ends: its sockets are closed by the operating system
Terminate(p, how) ==
    /\ pc' = [pc EXCEPT ![p] = "exited"]
    /\ exit' = [exit EXCEPT ![p] = how]
    /\ listener' = IF listener = p THEN "none" ELSE listener

----------------------------------------------------------------------------
(* main, lines 104-111: the paths and their validation *)

\* line 104
AbsPaths(a, wd) == [i \in 1..Len(a) |-> Abspath(Rstrip(a[i]), wd)]

\* lines 106-111: the error one path raises, "none" when it passes
PathError(fp, ft) ==
    IF ~ft.given \/ ft.val = ZARR
    THEN IF ~IsDir(fp) \/ ~EndsWith(fp, ZarrSuffix) THEN "SystemExit: zarr" ELSE "none"
    ELSE IF ft.val = NIIGZ
    THEN IF IsDir(fp) \/ ~EndsWith(fp, NiiSuffix) THEN "SystemExit: nii" ELSE "none"
    ELSE "none"

\* lines 105-111: the first error of the loop
RECURSIVE FirstError(_, _, _)
FirstError(fps, ft, i) ==
    IF i > Len(fps) THEN "none"
    ELSE IF PathError(fps[i], ft) # "none" THEN PathError(fps[i], ft)
    ELSE FirstError(fps, ft, i + 1)

Validate(p) ==
    /\ pc[p] = "validate"
    /\ LET fps == AbsPaths(args[p].file_path, cwd)
           err == FirstError(fps, args[p].file_type, 1)
       IN  /\ file_paths' = [file_paths EXCEPT ![p] = fps]
           /\ IF err # "none"
              THEN Terminate(p, err)
              ELSE /\ pc' = [pc EXCEPT ![p] = "prepare"]
                   /\ UNCHANGED <<exit, listener>>
    /\ UNCHANGED <<cwd, args, root_dir, layer_names, probed, running_servers,
                   httpd, state, shown, bsVars, httpVars>>

----------------------------------------------------------------------------
(* main, lines 114-121: the temporary root and its links *)

\* os.path.lexists(os.path.join(root_dir, base)): join(root, "") is the root itself
Lexists(links, base) == base = <<>> \/ base \in DOMAIN links

\* os.remove(link_path): unlinking a directory raises
Remove(links, base) ==
    IF base = <<>>
    THEN [raised |-> "IsADirectoryError", links |-> links]
    ELSE [raised |-> "none", links |-> [b \in DOMAIN links \ {base} |-> links[b]]]

\* os.symlink(fp, link_path): an existing entry raises
Symlink(links, base, fp) ==
    IF Lexists(links, base)
    THEN [raised |-> "FileExistsError", links |-> links]
    ELSE [raised |-> "none",
          links |-> [b \in DOMAIN links \cup {base} |-> IF b = base THEN fp ELSE links[b]]]

\* a bug: the existing entry is not removed first
LinkOneNoRemove(links, fp) == Symlink(links, Basename(Rstrip(fp)), fp)

\* lines 117-121: one iteration of the loop
LinkOne(links, fp) ==
    LET base == Basename(Rstrip(fp))
    IN  IF Lexists(links, base)
        THEN LET r == Remove(links, base)
             IN  IF r.raised # "none" THEN r ELSE Symlink(r.links, base, fp)
        ELSE Symlink(links, base, fp)

\* lines 116-121: the loop, stopped by the first exception
RECURSIVE LinkAll(_, _, _)
LinkAll(links, fps, i) ==
    IF i > Len(fps) THEN [raised |-> "none", links |-> links]
    ELSE LET r == LinkOne(links, fps[i])
         IN  IF r.raised # "none" THEN r ELSE LinkAll(r.links, fps, i + 1)

PrepareRoot(p) ==
    /\ pc[p] = "prepare"
    /\ LET r == LinkAll(<<>>, file_paths[p], 1)
       IN  /\ root_dir' = [root_dir EXCEPT ![p] = [exists |-> TRUE, links |-> r.links]]
           /\ IF r.raised # "none"
              THEN Terminate(p, r.raised)
              ELSE /\ pc' = [pc EXCEPT ![p] = "names"]
                   /\ UNCHANGED <<exit, listener>>
    /\ UNCHANGED <<cwd, args, file_paths, layer_names, probed, running_servers,
                   httpd, state, shown, bsVars, httpVars>>

----------------------------------------------------------------------------
(* main, lines 123-125: the layer names *)

\* a bug: --name given with no value counts as a list of names
LayerNamesNotNone(name, fps) ==
    IF name.given /\ Len(name.val) # Len(fps)
    THEN [raised |-> "SystemExit: names", names |-> <<>>]
    ELSE [raised |-> "none",
          names |-> IF name.given THEN name.val
                    ELSE [i \in 1..Len(fps) |-> Basename(fps[i])]]

\* lines 123-125: an empty list is false like None
LayerNames(name, fps) ==
    LET truthy == name.given /\ Len(name.val) > 0
    IN  IF truthy /\ Len(name.val) # Len(fps)
        THEN [raised |-> "SystemExit: names", names |-> <<>>]
        ELSE [raised |-> "none",
              names |-> IF truthy THEN name.val
                        ELSE [i \in 1..Len(fps) |-> Basename(fps[i])]]

ResolveNames(p) ==
    /\ pc[p] = "names"
    /\ LET r == LayerNames(args[p].name, file_paths[p])
       IN  /\ layer_names' = [layer_names EXCEPT ![p] = r.names]
           /\ IF r.raised # "none"
              THEN Terminate(p, r.raised)
              ELSE /\ pc' = [pc EXCEPT ![p] = "probe"]
                   /\ UNCHANGED <<exit, listener>>
    /\ UNCHANGED <<cwd, args, file_paths, root_dir, probed, running_servers,
                   httpd, state, shown, bsVars, httpVars>>

----------------------------------------------------------------------------
(* is_port_in_use, start_server, stop_all_servers *)

\* lines 37-40: a connection to (host, port) succeeds when somebody listens there
is_port_in_use(l) == l # "none"

\* a bug: the server is started before the port is probed
ProbeAfterStart(p) ==
    /\ pc[p] = "probe"
    /\ IF listener = "none"
       THEN /\ httpd' = [httpd EXCEPT ![p] = [created |-> TRUE, serving |-> TRUE,
                                             shutdown |-> FALSE, closed |-> FALSE]]
            /\ running_servers' = [running_servers EXCEPT ![p] = Append(@, p)]
       ELSE UNCHANGED <<httpd, running_servers>>
    /\ probed' = [probed EXCEPT ![p] = "in_use"]
    /\ Terminate(p, "SystemExit: port")
    /\ UNCHANGED <<cwd, args, file_paths, root_dir, layer_names, state, shown,
                   bsVars, httpVars>>

\* main, lines 128 and 130-131: the probe
Probe(p) ==
    /\ pc[p] = "probe"
    /\ IF is_port_in_use(listener)
       THEN /\ probed' = [probed EXCEPT ![p] = "in_use"]
            /\ Terminate(p, "SystemExit: port")
       ELSE /\ probed' = [probed EXCEPT ![p] = "free"]
            /\ pc' = [pc EXCEPT ![p] = "start"]
            /\ UNCHANGED <<exit, listener>>
    /\ UNCHANGED <<cwd, args, file_paths, root_dir, layer_names, running_servers,
                   httpd, state, shown, bsVars, httpVars>>

\* main, line 129, and start_server, lines 42-48: ThreadingHTTPServer binds and
\* listens in its constructor and raises OSError when the address is taken
StartServer(p) ==
    /\ pc[p] = "start"
    /\ IF listener # "none"
       THEN /\ Terminate(p, "OSError")
            /\ UNCHANGED <<httpd, running_servers>>
       ELSE /\ listener' = p
            /\ httpd' = [httpd EXCEPT ![p] = [created |-> TRUE, serving |-> TRUE,
                                             shutdown |-> FALSE, closed |-> FALSE]]
            /\ running_servers' = [running_servers EXCEPT ![p] = Append(@, p)]
            /\ pc' = [pc EXCEPT ![p] = "build"]
            /\ UNCHANGED exit
    /\ UNCHANGED <<cwd, args, file_paths, root_dir, layer_names, probed, state,
                   shown, bsVars, httpVars>>

\* lines 50-54: every registered server is shut down and closed, the registry cleared
stop_all_servers(rs, h) ==
    [q \in DOMAIN h |->
        IF \E i \in 1..Len(rs) : rs[i] = q
        THEN [h[q] EXCEPT !.serving = FALSE, !.shutdown = TRUE, !.closed = TRUE]
        ELSE h[q]]

----------------------------------------------------------------------------
(* main, lines 133-157 *)

\* line 134
ServedUrl(fp) == <<"http://">> \o HOST \o <<":">> \o PORT \o <<SLASH>> \o Basename(fp) \o <<SLASH>>

\* lines 134-138
BuildState(p) ==
    /\ pc[p] = "build"
    /\ LET urls == [i \in 1..Len(file_paths[p]) |-> ServedUrl(file_paths[p][i])]
           st   == IF args[p].file_type.given
                   THEN build_state(PyList(urls), PyList(layer_names[p]),
                                    PyStr(args[p].file_type.val))
                   ELSE build_state(PyList(urls), PyList(layer_names[p]), PyStr(ZARR))
       IN  /\ state' = [state EXCEPT ![p] = st]
           /\ IF st.raised # "none"
              THEN Terminate(p, st.raised)
              ELSE /\ pc' = [pc EXCEPT ![p] = "encode"]
                   /\ UNCHANGED <<exit, listener>>
    /\ UNCHANGED <<cwd, args, file_paths, root_dir, layer_names, probed,
                   running_servers, httpd, shown, bsVars, httpVars>>

\* lines 141-146: the URL is made and printed
EncodeAndPrint(p) ==
    /\ pc[p] = "encode"
    /\ shown' = [shown EXCEPT ![p].printed = TRUE]
    /\ pc' = [pc EXCEPT ![p] = "open"]
    /\ UNCHANGED <<cwd, args, file_paths, root_dir, layer_names, probed,
                   running_servers, httpd, listener, state, exit, bsVars, httpVars>>

\* lines 149-150
OpenBrowser(p) ==
    /\ pc[p] = "open"
    /\ shown' = [shown EXCEPT ![p].opened = ~args[p].no_open]
    /\ pc' = [pc EXCEPT ![p] = "wait"]
    /\ UNCHANGED <<cwd, args, file_paths, root_dir, layer_names, probed,
                   running_servers, httpd, listener, state, exit, bsVars, httpVars>>

\* lines 153-157: KeyboardInterrupt raised in threading.Event().wait() is caught;
\* the servers are stopped and main returns
InterruptWait(p) ==
    /\ pc[p] = "wait"
    /\ httpd' = stop_all_servers(running_servers[p], httpd)
    /\ running_servers' = [running_servers EXCEPT ![p] = <<>>]
    /\ pc' = [pc EXCEPT ![p] = "exited"]
    /\ exit' = [exit EXCEPT ![p] = "normal"]
    /\ listener' = IF \E i \in 1..Len(running_servers[p]) : running_servers[p][i] = listener
                   THEN "none" ELSE listener
    /\ UNCHANGED <<cwd, args, file_paths, root_dir, layer_names, probed, state,
                   shown, bsVars, httpVars>>

\* KeyboardInterrupt raised anywhere else in main (lines 104-150) is outside the
\* try of line 153: it propagates and ends the process
InterruptElsewhere(p) ==
    /\ pc[p] \in {"validate", "prepare", "names", "probe", "start", "build",
                  "encode", "open"}
    /\ Terminate(p, "KeyboardInterrupt")
    /\ UNCHANGED <<cwd, args, file_paths, root_dir, layer_names, probed,
                   running_servers, httpd, state, shown, bsVars, httpVars>>

----------------------------------------------------------------------------
(* One invocation of main *)

InitProcs(ps) ==
    /\ pc = [p \in ps |-> "validate"]
    /\ file_paths = [p \in ps |-> <<>>]
    /\ root_dir = [p \in ps |-> NoRoot]
    /\ layer_names = [p \in ps |-> <<>>]
    /\ probed = [p \in ps |-> "none"]
    /\ running_servers = [p \in ps |-> <<>>]
    /\ httpd = [p \in ps |-> NoServer]
    /\ state = [p \in ps |-> NoState]
    /\ shown = [p \in ps |-> [printed |-> FALSE, opened |-> FALSE]]
    /\ exit = [p \in ps |-> "none"]

InitIdleBuild ==
    /\ bs_in = <<>>
    /\ bs_out = [called |-> FALSE, result |-> NoState]

InitIdleHttp == responses = <<>>

Init ==
    /\ cwd \in Cwds
    /\ args \in [{"m1"} -> ArgSets]
    /\ listener \in {"none", "other"}
    /\ InitProcs({"m1"})
    /\ InitIdleBuild
    /\ InitIdleHttp

Next ==
    \/ \E p \in Procs : Validate(p)
    \/ \E p \in Procs : PrepareRoot(p)
    \/ \E p \in Procs : ResolveNames(p)
    \/ \E p \in Procs : Probe(p)
    \/ \E p \in Procs : StartServer(p)
    \/ \E p \in Procs : BuildState(p)
    \/ \E p \in Procs : EncodeAndPrint(p)
    \/ \E p \in Procs : OpenBrowser(p)
    \/ \E p \in Procs : InterruptWait(p)
    \/ \E p \in Procs : InterruptElsewhere(p)

Spec == Init /\ [][Next]_vars

----------------------------------------------------------------------------
(* Two invocations of main for the same host and port *)

RaceArgSets == { a \in ArgSets :
                    /\ a.file_path = << <<SLASH, "d", SLASH, "a", ".zarr">> >>
                    /\ a.name = None
                    /\ a.file_type \in {None, Some(ZARR)} }

InitRace ==
    /\ cwd = <<SLASH, "w">>
    /\ args \in [{"m1", "m2"} -> RaceArgSets]
    /\ listener = "none"
    /\ InitProcs({"m1", "m2"})
    /\ InitIdleBuild
    /\ InitIdleHttp

SpecRace == InitRace /\ [][Next]_vars

----------------------------------------------------------------------------
(* build_state called on its own *)

UrlTokens == <<"u1", "u2", "u3", "u4", "u5">>
UrlList(k) == [i \in 1..k |-> <<"http://h:1/", UrlTokens[i], SLASH>>]
LabelTokens == <<"A", "B", "C", "D", "E">>
LabelList(k) == [i \in 1..k |-> <<LabelTokens[i]>>]

\* a str, or a list of 0..MaxLen str
UrlArgs == { PyStr(UrlList(1)[1]) } \cup { PyList(UrlList(k)) : k \in 0..MaxLen }
LabelArgs == { PyStr(LabelList(1)[1]) } \cup { PyList(LabelList(k)) : k \in 0..MaxLen }
TypeArgs == { PyStr(t) : t \in {ZARR, N5} }
            \cup { PyList(ts) : ts \in UNION { [1..k -> {ZARR, N5}] : k \in 0..MaxLen } }

InitBuild ==
    /\ bs_in \in [file_http_url : UrlArgs, layer_name : LabelArgs, file_type : TypeArgs]
    /\ bs_out = [called |-> FALSE, result |-> NoState]
    /\ cwd = <<SLASH>>
    /\ args = <<>>
    /\ listener = "none"
    /\ InitProcs({})
    /\ InitIdleHttp

CallBuildState ==
    /\ ~bs_out.called
    /\ bs_out' = [called |-> TRUE,
                  result |-> build_state(bs_in.file_http_url, bs_in.layer_name,
                                         bs_in.file_type)]
    /\ UNCHANGED <<bs_in, mainVars, httpVars>>

NextBuild == CallBuildState

SpecBuild == InitBuild /\ [][NextBuild]_vars

----------------------------------------------------------------------------
(* CORSRequestHandler: SimpleHTTPRequestHandler with end_headers and do_OPTIONS *)
(* of lines 19-35.  A handler h is [rv, command, buf, out, body]: the request *)
(* version it goes by, the method, the headers buffer, the lines written to   *)
(* the connection, and whether a body follows them.                           *)

ACAO == "Access-Control-Allow-Origin"
BLANK == <<"", "">>      \* the empty line that ends the headers

Methods == {"GET", "HEAD", "OPTIONS", "POST"}
\* the last word of the request line: a version, none at all, or not a version
Versions == {"HTTP/1.1", "HTTP/1.0", "HTTP/3.0", "FOO/1.0", "absent"}
\* what the path resolves to below the served root
Targets == {"file", "missing", "dir", "dir/", "dir/ with index"}

Requests == [method : Methods, version : Versions, target : Targets]

NewHandler == [rv |-> "HTTP/0.9", command |-> "None", buf |-> <<>>, out |-> <<>>,
               body |-> FALSE]

\* BaseHTTPRequestHandler.send_response_only: nothing for an HTTP/0.9 request
send_response_only(h, code) ==
    IF h.rv # "HTTP/0.9" THEN [h EXCEPT !.buf = Append(@, <<"status", code>>)] ELSE h

\* BaseHTTPRequestHandler.send_header: nothing for an HTTP/0.9 request
send_header(h, keyword, value) ==
    IF h.rv # "HTTP/0.9" THEN [h EXCEPT !.buf = Append(@, <<keyword, value>>)] ELSE h

\* BaseHTTPRequestHandler.send_response
send_response(h, code) ==
    send_header(send_header(send_response_only(h, code), "Server", "SimpleHTTP"),
                "Date", "now")

\* BaseHTTPRequestHandler.end_headers, called at line 29: the buffer is written out
super_end_headers(h) ==
    IF h.rv # "HTTP/0.9"
    THEN [h EXCEPT !.out = @ \o h.buf \o <<BLANK>>, !.buf = <<>>]
    ELSE h

\* a bug: the allow-origin header is left out of end_headers
end_headers_no_origin(h) ==
    super_end_headers(
        send_header(
            send_header(
                send_header(h, "Access-Control-Allow-Headers", "Range, Content-Type"),
                "Access-Control-Expose-Headers",
                "Content-Length, Content-Range, Accept-Ranges"),
            "Accept-Ranges", "bytes"))

\* CORSRequestHandler.end_headers, lines 23-29
end_headers(h) ==
    super_end_headers(
        send_header(
            send_header(
                send_header(
                    send_header(h, ACAO, "*"),
                    "Access-Control-Allow-Headers", "Range, Content-Type"),
                "Access-Control-Expose-Headers",
                "Content-Length, Content-Range, Accept-Ranges"),
            "Accept-Ranges", "bytes"))

\* CORSRequestHandler.do_OPTIONS, lines 30-35
do_OPTIONS(h) ==
    end_headers(
        send_header(
            send_header(
                send_header(send_response(h, "204"), ACAO, "*"),
                "Access-Control-Allow-Methods", "GET, OPTIONS"),
            "Access-Control-Allow-Headers", "Range, Content-Type"))

\* BaseHTTPRequestHandler.send_error: the codes used here all have a body,
\* written unless the method is HEAD
send_error(h, code) ==
    LET h1 == send_header(send_response(h, code), "Connection", "close")
        h2 == send_header(send_header(h1, "Content-Type", "text/html;charset=utf-8"),
                          "Content-Length", "len")
        h3 == end_headers(h2)
    IN  [h3 EXCEPT !.body = (h.command # "HEAD")]

\* SimpleHTTPRequestHandler.send_head
send_head(h, target) ==
    IF target = "missing" THEN [ok |-> FALSE, h |-> send_error(h, "404")]
    ELSE IF target = "dir"
    THEN [ok |-> FALSE,
          h |-> end_headers(send_header(send_header(send_response(h, "301"),
                                                    "Location", "dir/"),
                                        "Content-Length", "0"))]
    ELSE IF target = "dir/"
    THEN [ok |-> TRUE,
          h |-> end_headers(send_header(send_header(send_response(h, "200"),
                                                    "Content-type", "text/html"),
                                        "Content-Length", "len"))]
    ELSE [ok |-> TRUE,
          h |-> end_headers(send_header(send_header(send_header(
                                send_response(h, "200"),
                                "Content-type", "application/octet-stream"),
                                "Content-Length", "len"),
                                "Last-Modified", "then"))]

\* SimpleHTTPRequestHandler.do_GET: the head, then the file
do_GET(h, target) ==
    LET r == send_head(h, target)
    IN  IF r.ok THEN [r.h EXCEPT !.body = TRUE] ELSE r.h

\* SimpleHTTPRequestHandler.do_HEAD
do_HEAD(h, target) == send_head(h, target).h

\* BaseHTTPRequestHandler.parse_request: the version counts only once it has been
\* accepted; until then, and for a request line without one, it is HTTP/0.9
parse_request(req) ==
    LET h == NewHandler
    IN  IF req.version = "FOO/1.0" THEN [ok |-> FALSE, h |-> send_error(h, "400")]
        ELSE IF req.version = "HTTP/3.0" THEN [ok |-> FALSE, h |-> send_error(h, "505")]
        ELSE IF req.version = "absent"
        THEN IF req.method # "GET"
             THEN [ok |-> FALSE, h |-> send_error(h, "400")]
             ELSE [ok |-> TRUE, h |-> [h EXCEPT !.command = req.method]]
        ELSE [ok |-> TRUE, h |-> [h EXCEPT !.rv = req.version, !.command = req.method]]

\* BaseHTTPRequestHandler.handle_one_request: do_<command>, 501 when there is none
handle_one_request(req) ==
    LET r == parse_request(req)
    IN  IF ~r.ok THEN r.h
        ELSE IF req.method = "GET" THEN do_GET(r.h, req.target)
        ELSE IF req.method = "HEAD" THEN do_HEAD(r.h, req.target)
        ELSE IF req.method = "OPTIONS" THEN do_OPTIONS(r.h)
        ELSE send_error(r.h, "501")

InitHttp ==
    /\ responses = <<>>
    /\ cwd = <<SLASH>>
    /\ args = <<>>
    /\ listener = "none"
    /\ InitProcs({})
    /\ InitIdleBuild

\* the server answers one more request
HandleRequest ==
    /\ Len(responses) < MaxResponses
    /\ \E req \in Requests :
          LET h == handle_one_request(req)
          IN  responses' = Append(responses, [rv |-> h.rv, command |-> req.method,
                                              lines |-> h.out, body |-> h.body])
    /\ UNCHANGED <<mainVars, bsVars>>

NextHttp == HandleRequest

SpecHttp == InitHttp /\ [][NextHttp]_vars

----------------------------------------------------------------------------
(* Properties *)

\* the exposed name of a positional argument: the final segment of its path
ExposedName(arg, wd) == Basename(Abspath(Rstrip(arg), wd))

ExposedNames(p) ==
    [i \in 1..Len(args[p].file_path) |-> ExposedName(args[p].file_path[i], cwd)]

\* os.path.exists
Exists(fp) == fp \in Dirs \cup Files

\* the number of types once a single type is given to every URL
BroadcastLen(types, n) == IF Len(types) = 1 THEN n ELSE Len(types)

\* C1: build_state never truncates or pads silently: when URLs, names and types
\* (a single type counted once per URL) differ in length, build_state raises and
\* returns no state.
C1_MismatchIsReported ==
    bs_out.called =>
        LET n == Len(AsList(bs_in.file_http_url))
            m == Len(AsList(bs_in.layer_name))
            t == BroadcastLen(AsList(bs_in.file_type), n)
        IN  (n # m \/ n # t) => bs_out.result.raised # "none"

\* C2: N >= 1 URLs, N names and one type t give exactly N layers in input order,
\* the i-th being {type: "image", source: t + "://" + url_i, name: name_i}.
C2_BroadcastLayersInOrder ==
    LET urls  == AsList(bs_in.file_http_url)
        names == AsList(bs_in.layer_name)
        types == AsList(bs_in.file_type)
    IN  (bs_out.called /\ Len(urls) >= 1 /\ Len(names) = Len(urls) /\ Len(types) = 1)
        => /\ bs_out.result.raised = "none"
           /\ Len(bs_out.result.layers) = Len(urls)
           /\ \A i \in 1..Len(urls) :
                 bs_out.result.layers[i] =
                     [type |-> "image",
                      source |-> types[1] \o <<"://">> \o urls[i],
                      name |-> names[i]]

C2_Witness ==
    /\ bs_out.called
    /\ bs_in.file_http_url = PyList(UrlList(MaxLen))
    /\ bs_in.layer_name = PyList(LabelList(MaxLen))
    /\ bs_in.file_type = PyStr(N5)
    /\ Len(bs_out.result.layers) = MaxLen

\* C3: with --file_type nii.gz, an input path that is a directory, does not exist
\* or lacks the .nii.gz suffix ends main with the NIfTI error before the temporary
\* root is made or a server started.
C3_NiftiPathsMustBeFiles ==
    \A p \in Procs :
        LET fps == AbsPaths(args[p].file_path, cwd)
            bad == \E i \in 1..Len(fps) :
                      IsDir(fps[i]) \/ ~Exists(fps[i]) \/ ~EndsWith(fps[i], NiiSuffix)
        IN  (args[p].file_type = Some(NIIGZ) /\ bad)
            => /\ ~root_dir[p].exists
               /\ ~httpd[p].created
               /\ pc[p] # "validate" => exit[p] \in {"SystemExit: nii", "KeyboardInterrupt"}

FatalStartup == {"SystemExit: zarr", "SystemExit: nii", "SystemExit: names",
                 "SystemExit: port"}

\* C4: a run of main that ends in a fatal startup error (path check, --name count,
\* port in use) never called start_server: no socket bound, running_servers empty.
C4_FatalStartupStartsNoServer ==
    \A p \in Procs :
        exit[p] \in FatalStartup
        => /\ running_servers[p] = <<>>
           /\ ~httpd[p].created
           /\ listener # p

C4_Witness ==
    \E p \in Procs :
        /\ exit[p] = "SystemExit: port"
        /\ root_dir[p].exists
        /\ probed[p] = "in_use"

\* C5: after an interrupt in the waiting state, no server runs and the temporary
\* root is gone.
C5_InterruptReleasesRoot ==
    \A p \in Procs :
        exit[p] = "normal"
        => /\ running_servers[p] = <<>>
           /\ ~httpd[p].serving
           /\ ~root_dir[p].exists

\* C6: an interrupt at any point after start_server returned shuts down and closes
\* every server of the invocation and leaves running_servers empty.
C6_InterruptStopsServers ==
    \A p \in Procs :
        (httpd[p].created /\ exit[p] \in {"KeyboardInterrupt", "normal"})
        => /\ httpd[p].shutdown
           /\ httpd[p].closed
           /\ running_servers[p] = <<>>

Past(p, places) == pc[p] \in places

\* C7: --name values, when given, must be as many as the input paths, else main
\* exits with an error before the port is probed; without values (option absent or
\* empty) the i-th layer name is the exposed name of the i-th input path.
C7_NameCountOrDefault ==
    \A p \in Procs :
        LET name     == args[p].name
            supplied == name.given /\ Len(name.val) > 0
            n        == Len(args[p].file_path)
        IN  /\ (supplied /\ Len(name.val) # n)
               => /\ probed[p] = "none"
                  /\ ~httpd[p].created
                  /\ ~Past(p, {"probe", "start", "build", "encode", "open", "wait"})
                  /\ (Past(p, {"exited"}) /\ root_dir[p].exists
                        /\ exit[p] \notin {"KeyboardInterrupt", "IsADirectoryError"})
                     => exit[p] = "SystemExit: names"
            /\ ~supplied
               => /\ exit[p] # "SystemExit: names"
                  /\ Past(p, {"probe", "start", "build", "encode", "open", "wait"})
                     => layer_names[p] = ExposedNames(p)
                  /\ Past(p, {"encode", "open", "wait"})
                     => /\ Len(state[p].layers) = n
                        /\ \A i \in 1..n :
                              state[p].layers[i].name = ExposedName(args[p].file_path[i], cwd)

C7_Witness ==
    \E p \in Procs :
        /\ args[p].name = Some(<<>>)
        /\ Len(args[p].file_path) = 2
        /\ pc[p] = "wait"
        /\ layer_names[p] = ExposedNames(p)

HasOrigin(r) == \E j \in 1..Len(r.lines) : r.lines[j] = <<ACAO, "*">>

C9_NoBindCrash ==
    /\ \A p, q \in Procs : (httpd[p].serving /\ httpd[q].serving) => p = q
    /\ \A p \in Procs : exit[p] # "OSError"

Prepared(p) == Past(p, {"names", "probe", "start", "build", "encode", "open", "wait"})

\* the last input path with the exposed name of the i-th
RECURSIVE LastWithName(_, _, _)
LastWithName(names, i, j) ==
    IF names[j] = names[i] THEN j ELSE LastWithName(names, i, j - 1)

\* C10: root preparation never fails on a name collision; when start_server is
\* called the root has exactly one entry per exposed name, pointing to the last
\* input path of that name.
C10_RootHasEveryExposedName ==
    \A p \in Procs :
        /\ exit[p] # "FileExistsError"
        /\ (Prepared(p) \/ httpd[p].created)
           => LET names == ExposedNames(p)
                  links == root_dir[p].links
              IN  /\ root_dir[p].exists
                  /\ DOMAIN links = { names[i] : i \in 1..Len(names) }
                  /\ \A i \in 1..Len(names) :
                        links[names[i]] =
                            Abspath(Rstrip(args[p].file_path[
                                LastWithName(names, i, Len(names))]), cwd)

C10_Witness ==
    \E p \in Procs :
        /\ pc[p] = "start"
        /\ args[p].file_path = << <<SLASH, "d", SLASH, "a", ".zarr">>,
                                  <<SLASH, "e", SLASH, "a", ".zarr", SLASH>> >>
        /\ root_dir[p].links[<<"a", ".zarr">>] = <<SLASH, "e", SLASH, "a", ".zarr">>

====
